---------------------------- MODULE Spec2Model ----------------------------
(***************************************************************************)
(* Model of the digit-sequence crate: DigitSequence(Vec<u8>) and its       *)
(* conversions from/to integers and byte containers.                       *)
(*                                                                         *)
(* Rust's fixed-width integers are modelled bit-exactly as little-endian   *)
(* tuples of 8-bit limbs (u8 = 1 limb ... u128 = 16 limbs), so that the    *)
(* checked arithmetic of every width overflows exactly where the hardware  *)
(* type does.  Signed integers are two's complement over the same limbs.   *)
(***************************************************************************)
EXTENDS Integers, Sequences, FiniteSets, TLC

-----------------------------------------------------------------------------
(* Fixed-width integers *)

\* the radix of a limb: one byte
Base == 2 ^ 8
LimbMax == Base - 1

\* the integer widths the macros are instantiated for (usize/isize are 32 or
\* 64 bits wide, depending on the platform)
Widths == {8, 16, 32, 64, 128}

NumLimbs(bits) == bits \div 8

\* Option::None of the checked operations
None == <<>>

\* `n as Self` for a value below 2^8: a digit, or the literals 0 and 10
FromSmall(n, L) == [i \in 1..L |-> IF i = 1 THEN n % Base ELSE 0]

Zero(L) == FromSmall(0, L)

AllOnes(L) == [i \in 1..L |-> LimbMax]

\* Self::MAX of the unsigned type of L limbs
UMax(L) == AllOnes(L)

\* zero-extension / truncation to L limbs (`as` between unsigned types)
Resize(x, L) == [i \in 1..L |-> IF i <= Len(x) THEN x[i] ELSE 0]

\* the remainder carried into limb i by the more significant limbs
RECURSIVE RemAbove(_, _, _)
RemAbove(x, d, i) ==
    IF i >= Len(x) THEN 0
    ELSE (RemAbove(x, d, i + 1) * Base + x[i + 1]) % d

\* x % d, for a divisor below 2^8
RemSmall(x, d) == (RemAbove(x, d, 1) * Base + x[1]) % d

RECURSIVE DivLimbs(_, _, _, _)
\* long division from the most significant limb: the quotient's limbs i..1,
\* most significant first
DivLimbs(x, d, i, rem) ==
    IF i = 0 THEN <<>>
    ELSE LET cur == rem * Base + x[i]
         IN  <<cur \div d>> \o DivLimbs(x, d, i - 1, cur % d)

Reverse(s) == [i \in 1..Len(s) |-> s[Len(s) + 1 - i]] \o <<>>

\* x / d, for a divisor below 2^8
DivSmall(x, d) == Reverse(DivLimbs(x, d, Len(x), 0))

RECURSIVE AddLimbs(_, _, _, _)
\* limbs i..L of a + b followed by the carry out of the top limb
AddLimbs(a, b, i, carry) ==
    IF i > Len(a) THEN <<carry>>
    ELSE LET s == a[i] + b[i] + carry
         IN  <<s % Base>> \o AddLimbs(a, b, i + 1, s \div Base)

\* Self::wrapping_add in place of checked_add: the carry out is dropped
wrapping_add(a, b) == SubSeq(AddLimbs(a, b, 1, 0), 1, Len(a))

\* Self::checked_add
checked_add(a, b) ==
    LET r == AddLimbs(a, b, 1, 0)
    IN  IF r[Len(a) + 1] # 0 THEN None ELSE SubSeq(r, 1, Len(a))

RECURSIVE AddRow(_, _, _, _, _, _)
\* acc + m * b * Base^(shift), limbs k..Len(acc), b being L limbs wide
AddRow(acc, b, m, shift, k, carry) ==
    IF k > Len(acc) THEN <<>>
    ELSE LET j == k - shift
             t == IF j >= 1 /\ j <= Len(b) THEN m * b[j] ELSE 0
             s == acc[k] + t + carry
         IN  <<s % Base>> \o AddRow(acc, b, m, shift, k + 1, s \div Base)

RECURSIVE MulRows(_, _, _, _)
\* schoolbook product: the rows of the limbs i..L of a, added to acc
MulRows(a, b, i, acc) ==
    IF i > Len(a) THEN acc
    ELSE IF a[i] = 0 THEN MulRows(a, b, i + 1, acc)
    ELSE MulRows(a, b, i + 1,
                 SubSeq(acc, 1, i - 1) \o AddRow(acc, b, a[i], i - 1, i, 0))

\* Self::wrapping_mul in place of checked_mul: the high half is dropped
wrapping_mul(a, b) == SubSeq(MulRows(a, b, 1, Zero(2 * Len(a))), 1, Len(a))

\* Self::checked_mul: the full 2L-limb product fits iff its high half is zero
checked_mul(a, b) ==
    LET r == MulRows(a, b, 1, Zero(2 * Len(a)))
    IN  IF \E k \in (Len(a) + 1)..(2 * Len(a)) : r[k] # 0
        THEN None
        ELSE SubSeq(r, 1, Len(a))

RECURSIVE PowLoop(_, _, _)
\* Self::checked_pow: exponentiation by squaring over checked_mul
PowLoop(base, acc, exp) ==
    LET acc1 == IF exp % 2 = 1 THEN checked_mul(acc, base) ELSE acc
    IN  IF acc1 = None THEN None
        ELSE IF exp = 1 THEN acc1
        ELSE LET base1 == checked_mul(base, base)
             IN  IF base1 = None THEN None
                 ELSE PowLoop(base1, acc1, exp \div 2)

checked_pow(base, exp) ==
    IF exp = 0 THEN FromSmall(1, Len(base)) ELSE PowLoop(base, FromSmall(1, Len(base)), exp)

\* the exponents whose power of ten is tabulated
MaxExp == 39

\* <<10^0, ..., 10^MaxExp>> in L limbs, None where the power overflows
PowersOfTenIn(L) ==
    [k \in 1..(MaxExp + 1) |-> checked_pow(FromSmall(10, L), k - 1)] \o <<>>

\* (10 as Self).checked_pow(e), evaluated once for every width and exponent
PowerOfTenTable ==
    [L \in 1..NumLimbs(128) |->
        IF 8 * L \in Widths THEN PowersOfTenIn(L) ELSE <<>>] \o <<>>

\* (10 as Self).checked_pow(exp)
power_of_ten_checked(L, exp) ==
    IF exp <= MaxExp
    THEN PowerOfTenTable[L][exp + 1]
    ELSE checked_pow(FromSmall(10, L), exp)

\* Self::MIN <= value < 0 of the signed type: the sign bit of the top limb
IsNegative(x) == x[Len(x)] >= Base \div 2

\* `value as u128 as i128`: the sign is lost for the narrower types
ZeroExtend(x, L) == [i \in 1..L |-> IF i <= Len(x) THEN x[i] ELSE 0]

\* `value as i128` / `digit as u128`: sign- or zero-extension to L limbs
SignExtend(x, L) ==
    [i \in 1..L |-> IF i <= Len(x) THEN x[i]
                    ELSE IF IsNegative(x) THEN LimbMax ELSE 0]

-----------------------------------------------------------------------------
(* result.rs *)

Ok == "Ok"
NonDigitChar == "NonDigitChar"
NonDigitNumber == "NonDigitNumber"
NegativeNumber == "NegativeNumber"
Overflow == "Overflow"

\* CrateResult<DigitSequence>, CrateResult<uN> and the values the other
\* operations return, in one shape: tag, a sequence of digits, a number's
\* limbs or an error's payload
OkSeq(digits) == [tag |-> Ok, seq |-> digits, num |-> <<>>]
OkNum(n) == [tag |-> Ok, seq |-> <<>>, num |-> n]
Err(kind, payload) == [tag |-> kind, seq |-> <<>>, num |-> payload]
NoResult == [tag |-> "None", seq |-> <<>>, num |-> <<>>]

\* NonDigitNumber(u128), NegativeNumber(i128)
PayloadLimbs == NumLimbs(128)

-----------------------------------------------------------------------------
(* lib.rs, digit_sequence.rs: struct DigitSequence(Vec<u8>) *)

internal_create_digit_sequence(digits) == digits

new == <<>>

\* #[derive(Default)]: Vec::default()
default == <<>>

\* `x as u8`
AsU8(n) == n % Base

-----------------------------------------------------------------------------
(* integers/from_ints.rs *)

RECURSIVE ConvertWhile(_, _)
\* `while current_value != 0 { push; divide }`: nothing is pushed for 0
ConvertWhile(current_value, reversed_digits) ==
    IF current_value = Zero(Len(current_value)) THEN reversed_digits
    ELSE ConvertWhile(DivSmall(current_value, 10),
                      Append(reversed_digits, AsU8(RemSmall(current_value, 10))))

RECURSIVE ConvertLoop(_, _)
\* the loop of convert_from_positive!: push current_value % 10, divide by 10,
\* break when the quotient is 0
ConvertLoop(current_value, reversed_digits) ==
    LET digit == RemSmall(current_value, 10)
        pushed == Append(reversed_digits, AsU8(digit))
        next_value == DivSmall(current_value, 10)
    IN  IF next_value = Zero(Len(current_value))
        THEN pushed
        ELSE ConvertLoop(next_value, pushed)

RECURSIVE ConvertPassesWhile(_, _)
\* the passes of `while current_value != 0`: none for 0
ConvertPassesWhile(current_value, remaining) ==
    IF current_value = Zero(Len(current_value)) THEN remaining
    ELSE ConvertPassesWhile(DivSmall(current_value, 10),
                            Append(remaining, DivSmall(current_value, 10)))

RECURSIVE ConvertPasses(_, _)
\* the passes of the loop of convert_from_positive!: current_value as each
\* pass leaves it, the last one being the 0 that breaks the loop
ConvertPasses(current_value, remaining) ==
    LET next_value == DivSmall(current_value, 10)
    IN  IF next_value = Zero(Len(current_value))
        THEN Append(remaining, next_value)
        ELSE ConvertPasses(next_value, Append(remaining, next_value))

\* convert_from_positive! without the final `.rev()`
convert_from_positive_unreversed(value) ==
    internal_create_digit_sequence(ConvertLoop(value, <<>>))

convert_from_positive(value) ==
    LET reversed_digits == ConvertLoop(value, <<>>)
        digits == Reverse(reversed_digits)
    IN  internal_create_digit_sequence(digits)

\* the decomposition with a 0 before the digits
from_unsigned_padded(value) == OkSeq(<<0>> \o convert_from_positive(value))

\* impl From<$type> for DigitSequence
from_unsigned(value) == OkSeq(convert_from_positive(value))

\* the non-negative value converted through `value as u64`
try_from_signed_via_u64(value) ==
    IF IsNegative(value)
    THEN Err(NegativeNumber, SignExtend(value, PayloadLimbs))
    ELSE OkSeq(convert_from_positive(Resize(value, NumLimbs(64))))

\* impl TryFrom<$type> for DigitSequence, $type signed
try_from_signed(value) ==
    IF IsNegative(value)
    THEN Err(NegativeNumber, SignExtend(value, PayloadLimbs))
    ELSE OkSeq(convert_from_positive(value))

-----------------------------------------------------------------------------
(* slices.rs, arrays.rs, vecs.rs *)

RECURSIVE SliceLoopAbove(_, _, _)
\* the loop with `digit > 10` as its test
SliceLoopAbove(digits, i, digits_vec) ==
    IF i > Len(digits) THEN OkSeq(digits_vec)
    ELSE IF digits[i] > 10
    THEN Err(NonDigitNumber, FromSmall(digits[i], PayloadLimbs))
    ELSE SliceLoopAbove(digits, i + 1, Append(digits_vec, digits[i]))

RECURSIVE SliceLoopInsert(_, _, _)
\* the loop with `digits_vec.insert(0, digit)` for the push
SliceLoopInsert(digits, i, digits_vec) ==
    IF i > Len(digits) THEN OkSeq(digits_vec)
    ELSE IF digits[i] >= 10
    THEN Err(NonDigitNumber, FromSmall(digits[i], PayloadLimbs))
    ELSE SliceLoopInsert(digits, i + 1, <<digits[i]>> \o digits_vec)

RECURSIVE SliceLoop(_, _, _)
SliceLoop(digits, i, digits_vec) ==
    IF i > Len(digits) THEN OkSeq(digits_vec)
    ELSE IF digits[i] >= 10
    THEN Err(NonDigitNumber, FromSmall(digits[i], PayloadLimbs))
    ELSE SliceLoop(digits, i + 1, Append(digits_vec, digits[i]))

RECURSIVE SlicePasses(_, _)
\* the passes the loop over the elements begins, from element i on, before
\* it ends or returns the error
SlicePasses(digits, i) ==
    IF i > Len(digits) THEN i - 1
    ELSE IF digits[i] >= 10 THEN i
    ELSE SlicePasses(digits, i + 1)

\* the scan run from the last element to the first
try_from_slice_from_end(digits) ==
    LET r == SliceLoop(Reverse(digits), 1, <<>>)
    IN  IF r.tag = Ok THEN OkSeq(Reverse(r.seq)) ELSE r

\* impl TryFrom<&[u8]> for DigitSequence
try_from_slice(digits) == SliceLoop(digits, 1, <<>>)

\* impl TryFrom<[u8; N]>: (&digits as &[u8]).try_into()
try_from_array(digits) == try_from_slice(digits)

\* impl TryFrom<&[u8; N]>: (digits as &[u8]).try_into()
try_from_array_ref(digits) == try_from_slice(digits)

\* impl TryFrom<Vec<u8>>: (&value as &[u8]).try_into()
try_from_vec(value) == try_from_slice(value)

\* impl TryFrom<&Vec<u8>>: (value as &[u8]).try_into()
try_from_vec_ref(value) == try_from_slice(value)

-----------------------------------------------------------------------------
(* integers/to_ints.rs *)

\* a usize index (taken 64 bits wide) as limbs
UsizeLimbs(index) ==
    [i \in 1..NumLimbs(64) |->
        IF i <= NumLimbs(32) THEN (index \div Base ^ (i - 1)) % Base ELSE 0]

\* `index.try_into()` to u32: fails when a limb above the low 32 bits is set
IndexToU32(index) ==
    IF \E i \in (NumLimbs(32) + 1)..NumLimbs(64) : UsizeLimbs(index)[i] # 0
    THEN None
    ELSE <<index>>

\* one pass that leaves `result` as it is for a digit 0, before any power
ToUnsignedStepSkipZero(L, digit, index, result) ==
    IF digit = 0 THEN result
    ELSE LET power_of_ten == IndexToU32(index)
         IN  IF power_of_ten = None THEN None
             ELSE LET magnitude == power_of_ten_checked(L, power_of_ten[1])
                  IN  IF magnitude = None THEN None
                      ELSE LET addition_term == checked_mul(FromSmall(digit, L), magnitude)
                           IN  IF addition_term = None THEN None
                               ELSE checked_add(result, addition_term)

\* one pass of the for loop: the new `result`, None where a `?` returns
ToUnsignedStep(L, digit, index, result) ==
    LET power_of_ten == IndexToU32(index)
    IN  IF power_of_ten = None THEN None
        ELSE LET magnitude == power_of_ten_checked(L, power_of_ten[1])
             IN  IF magnitude = None THEN None
                 ELSE LET addition_term == checked_mul(FromSmall(digit, L), magnitude)
                      IN  IF addition_term = None THEN None
                          ELSE checked_add(result, addition_term)

RECURSIVE ToUnsignedLoopDigitError(_, _, _, _)
\* the loop reporting a failure as the NonDigitNumber of the current digit
ToUnsignedLoopDigitError(L, digits, index, result) ==
    IF index >= Len(digits) THEN OkNum(result)
    ELSE LET next_result ==
                 ToUnsignedStep(L, digits[Len(digits) - index], index, result)
         IN  IF next_result = None
             THEN Err(NonDigitNumber, <<digits[Len(digits) - index]>>)
             ELSE ToUnsignedLoopDigitError(L, digits, index + 1, next_result)

RECURSIVE ToUnsignedLoop(_, _, _, _)
\* the for loop over value.iter().rev().enumerate(); every failure is
\* mapped to CrateError::Overflow
ToUnsignedLoop(L, digits, index, result) ==
    IF index >= Len(digits) THEN OkNum(result)
    ELSE LET next_result ==
                 ToUnsignedStep(L, digits[Len(digits) - index], index, result)
         IN  IF next_result = None THEN Err(Overflow, <<>>)
             ELSE ToUnsignedLoop(L, digits, index + 1, next_result)

RECURSIVE ToUnsignedPasses(_, _, _, _)
\* the passes the for loop begins before it ends or a `?` returns
ToUnsignedPasses(L, digits, index, result) ==
    IF index >= Len(digits) THEN index
    ELSE LET next_result ==
                 ToUnsignedStep(L, digits[Len(digits) - index], index, result)
         IN  IF next_result = None THEN index + 1
             ELSE ToUnsignedPasses(L, digits, index + 1, next_result)

\* the conversion refusing a sequence without digits
try_to_unsigned_ref_nonempty(bits, value) ==
    IF value = <<>> THEN Err(Overflow, <<>>)
    ELSE ToUnsignedLoop(NumLimbs(bits), value, 0, Zero(NumLimbs(bits)))

\* impl TryFrom<&DigitSequence> for $type
try_to_unsigned_ref(bits, value) ==
    ToUnsignedLoop(NumLimbs(bits), value, 0, Zero(NumLimbs(bits)))

\* the conversion by value walking value.iter() without .rev()
try_to_unsigned_forward(bits, value) == try_to_unsigned_ref(bits, Reverse(value))

\* impl TryFrom<DigitSequence> for $type: Self::try_from(&value)
try_to_unsigned(bits, value) == try_to_unsigned_ref(bits, value)


-----------------------------------------------------------------------------
(* strings.rs *)

\* char::to_digit(10) on a char given by its code point: '0'..'9' only
to_digit(c) == IF c >= 48 /\ c <= 57 THEN <<c - 48>> ELSE None

RECURSIVE FromStrLoopTrim(_, _, _)
\* the loop with the leading '0' characters skipped instead of pushed
FromStrLoopTrim(s, i, digits) ==
    IF i > Len(s) THEN OkSeq(internal_create_digit_sequence(digits))
    ELSE LET current_char == s[i]
             digit == to_digit(current_char)
         IN  IF digit = None
             THEN Err(NonDigitChar, <<current_char>>)
             ELSE IF digit[1] = 0 /\ digits = <<>>
             THEN FromStrLoopTrim(s, i + 1, digits)
             ELSE FromStrLoopTrim(s, i + 1, Append(digits, AsU8(digit[1])))

RECURSIVE FromStrLoop(_, _, _)
\* the for loop over s.chars(): push the digit of each char, return the
\* error of the first char that has none
FromStrLoop(s, i, digits) ==
    IF i > Len(s) THEN OkSeq(internal_create_digit_sequence(digits))
    ELSE LET current_char == s[i]
             digit == to_digit(current_char)
         IN  IF digit = None
             THEN Err(NonDigitChar, <<current_char>>)
             ELSE FromStrLoop(s, i + 1, Append(digits, AsU8(digit[1])))

RECURSIVE FromStrPasses(_, _)
\* the passes the loop over s.chars() begins, from char i on, before it
\* ends or returns the error
FromStrPasses(s, i) ==
    IF i > Len(s) THEN i - 1
    ELSE IF to_digit(s[i]) = None THEN i
    ELSE FromStrPasses(s, i + 1)

\* the chars scanned from the last to the first
from_str_from_end(s) ==
    LET r == FromStrLoop(Reverse(s), 1, <<>>)
    IN  IF r.tag = Ok THEN OkSeq(Reverse(r.seq)) ELSE r

\* impl FromStr for DigitSequence
from_str(s) == FromStrLoop(s, 1, <<>>)

-----------------------------------------------------------------------------
(* digit_sequence.rs: impl Display for DigitSequence *)

\* a String the operation returned, as the code points of its chars
OkStr(chars) == [tag |-> Ok, seq |-> <<>>, num |-> chars]

\* write!(f, "{:02}", digit): zero-padded to two chars
fmt_u8_padded(digit) ==
    IF digit < 100
    THEN <<48 + (digit \div 10), 48 + (digit % 10)>>
    ELSE <<48 + (digit \div 100), 48 + ((digit \div 10) % 10), 48 + (digit % 10)>>

\* write!(f, "{}", digit) of a u8: its decimal numeral, 1 to 3 chars
fmt_u8(digit) ==
    IF digit < 10 THEN <<48 + digit>>
    ELSE IF digit < 100
    THEN <<48 + (digit \div 10), 48 + (digit % 10)>>
    ELSE <<48 + (digit \div 100), 48 + ((digit \div 10) % 10), 48 + (digit % 10)>>

RECURSIVE FmtLoopTrim(_, _, _)
\* the loop writing nothing for the zeros before the first other digit
FmtLoopTrim(digits, i, written) ==
    IF i > Len(digits) THEN written
    ELSE IF digits[i] = 0 /\ written = <<>>
    THEN FmtLoopTrim(digits, i + 1, written)
    ELSE FmtLoopTrim(digits, i + 1, written \o fmt_u8(digits[i]))

RECURSIVE FmtLoop(_, _, _)
\* for digit in &self.0 { write!(f, "{}", digit)?; }
FmtLoop(digits, i, written) ==
    IF i > Len(digits) THEN written
    ELSE FmtLoop(digits, i + 1, written \o fmt_u8(digits[i]))

\* Display::fmt into an empty String, which cannot fail
fmt(digits) == FmtLoop(digits, 1, <<>>)

\* ToString::to_string, from Display
to_string(digits) == OkStr(fmt(digits))

-----------------------------------------------------------------------------
(* iteration.rs *)

RECURSIVE Collect(_, _)
\* the items a std iterator over the vector yields, from position i on
Collect(digits, i) ==
    IF i > Len(digits) THEN <<>> ELSE <<digits[i]>> \o Collect(digits, i + 1)

\* self.0.iter().rev()
iter_rev(digits) == Reverse(Collect(digits, 1))

\* DigitSequence::iter: self.0.iter()
iter(digits) == Collect(digits, 1)

\* IntoIterator for &DigitSequence: self.0.iter()
into_iter_ref(digits) == Collect(digits, 1)

\* IntoIterator for DigitSequence: self.0.into_iter()
into_iter(digits) == Collect(digits, 1)


-----------------------------------------------------------------------------
(* lib.rs: #[derive(PartialEq, Eq, PartialOrd, Ord)] on DigitSequence(Vec<u8>) *)

\* a bool the operation returned: false as 0, true as 1
OkBool(b) == [tag |-> Ok, seq |-> <<>>, num |-> <<IF b THEN 1 ELSE 0>>]

RECURSIVE StripZeros(_)
\* a sequence without its leading zeros
StripZeros(digits) ==
    IF digits # <<>> /\ digits[1] = 0 THEN StripZeros(Tail(digits)) ELSE digits

\* the equality of the numerals: leading zeros are not compared
SliceEqNumeric(a, b) == StripZeros(a) = StripZeros(b)

\* Vec<u8> == slice, array or Vec<u8>: equal lengths, then equal elements
SliceEq(a, b) ==
    IF Len(a) # Len(b) THEN FALSE
    ELSE \A i \in 1..Len(a) : a[i] = b[i]

\* derived PartialEq: self.0 == other.0
eq(digits, other) == SliceEq(digits, other)

\* PartialEq<&[u8]> for DigitSequence: self.0 == *other
eq_slice(digits, other) == SliceEq(digits, other)

\* PartialEq<[u8; N]> for DigitSequence: self.0 == *other
eq_array(digits, other) == SliceEq(digits, other)

\* PartialEq<&[u8; N]> for DigitSequence: self.0 == **other
eq_array_ref(digits, other) == SliceEq(digits, other)

\* PartialEq<Vec<u8>> for DigitSequence: self.0 == *other
eq_vec(digits, other) == SliceEq(digits, other)

\* PartialEq<&Vec<u8>> for DigitSequence: self.0 == **other
eq_vec_ref(digits, other) == SliceEq(digits, other)

\* std::cmp::Ordering
Less == -1
Equal == 0
Greater == 1

\* an Ordering the operation returned
OkOrd(ordering) == [tag |-> Ok, seq |-> <<>>, num |-> <<ordering>>]

\* Ord::cmp of two integers (u8 elements, usize lengths)
cmp_int(a, b) == IF a < b THEN Less ELSE IF a > b THEN Greater ELSE Equal

RECURSIVE CmpLoopNoLen(_, _, _)
\* the comparison that stops at the end of the shorter operand
CmpLoopNoLen(left, right, i) ==
    IF i > Len(left) \/ i > Len(right) THEN Equal
    ELSE IF left[i] # right[i] THEN cmp_int(left[i], right[i])
    ELSE CmpLoopNoLen(left, right, i + 1)

RECURSIVE CmpLoop(_, _, _)
\* Ord for Vec<u8>, lexicographic: the first pair of elements that differ
\* decides, and when the shorter operand is exhausted the lengths do
CmpLoop(left, right, i) ==
    IF i > Len(left) \/ i > Len(right) THEN cmp_int(Len(left), Len(right))
    ELSE IF left[i] # right[i] THEN cmp_int(left[i], right[i])
    ELSE CmpLoop(left, right, i + 1)

\* the comparison by length first, then by elements
cmp_length_first(left, right) ==
    IF Len(left) # Len(right) THEN cmp_int(Len(left), Len(right))
    ELSE CmpLoop(left, right, 1)

\* derived Ord::cmp: self.0.cmp(&other.0)
cmp(left, right) == CmpLoop(left, right, 1)

-----------------------------------------------------------------------------
(* lib.rs: #[cfg_attr(feature = "serde", derive(Serialize, Deserialize))] *)
(* on DigitSequence(Vec<u8>), through serde_json as in the tests           *)

\* the error of serde_json::from_str
SerdeError == "SerdeError"

RECURSIVE SerializeLoopTrim(_, _)
\* the elements written without the zeros before the first other element
SerializeLoopTrim(digits, i) ==
    IF i > Len(digits) THEN <<>>
    ELSE (IF \A j \in 1..i : digits[j] = 0 THEN <<>>
          ELSE (IF \E j \in 1..(i - 1) : digits[j] # 0 THEN <<44>> ELSE <<>>)
                   \o fmt_u8(digits[i]))
             \o SerializeLoopTrim(digits, i + 1)

RECURSIVE SerializeLoop(_, _)
\* the derived Serialize of the newtype serializes the Vec<u8> it wraps: a
\* sequence of u8 elements, which serde_json writes with ',' between them
SerializeLoop(digits, i) ==
    IF i > Len(digits) THEN <<>>
    ELSE (IF i > 1 THEN <<44>> ELSE <<>>) \o fmt_u8(digits[i])
             \o SerializeLoop(digits, i + 1)

\* serde_json::to_string(&sequence): '[' elements ']', which cannot fail
serialize(digits) == OkStr(<<91>> \o SerializeLoop(digits, 1) \o <<93>>)

RECURSIVE ParseU8(_, _, _, _)
\* one JSON number read into a u8 from json[i]: <<value, next index>>, or
\* None when there is no number, it has a leading zero or exceeds u8::MAX
ParseU8(json, i, value, count) ==
    IF i <= Len(json) /\ json[i] \in 48..57
    THEN IF count = 1 /\ value = 0 THEN None
         ELSE IF (value * 10) + (json[i] - 48) > LimbMax THEN None
         ELSE ParseU8(json, i + 1, (value * 10) + (json[i] - 48), count + 1)
    ELSE IF count = 0 THEN None
    ELSE <<value, i>>

RECURSIVE ParseElements(_, _, _)
\* the derived Deserialize reads a Vec<u8>, element by element, and wraps it
\* in DigitSequence: no element is compared with 10
ParseElements(json, i, elements) ==
    LET number == ParseU8(json, i, 0, 0)
    IN  IF number = None THEN Err(SerdeError, <<>>)
        ELSE IF number[2] = Len(json) /\ json[number[2]] = 93
        THEN OkSeq(Append(elements, number[1]))
        ELSE IF number[2] < Len(json) /\ json[number[2]] = 44
        THEN ParseElements(json, number[2] + 1, Append(elements, number[1]))
        ELSE Err(SerdeError, <<>>)

\* serde_json::from_str::<DigitSequence>(json)
deserialize(json) ==
    IF Len(json) < 2 \/ json[1] # 91 THEN Err(SerdeError, <<>>)
    ELSE IF json = <<91, 93>> THEN OkSeq(<<>>)
    ELSE ParseElements(json, 2, <<>>)

-----------------------------------------------------------------------------
(* Inputs of the operations *)

MaxSrcLen == 3
MaxStrLen == 2
MaxLeadingZeros == 2

RECURSIVE SeqsUpTo(_, _)
\* the sequences over S of length at most n
SeqsUpTo(S, n) ==
    IF n = 0 THEN {<<>>}
    ELSE LET shorter == SeqsUpTo(S, n - 1)
         IN  shorter \cup {Append(t, x) : t \in {u \in shorter : Len(u) = n - 1}, x \in S}

Zeros(n) == [i \in 1..n |-> 0]

\* bit patterns around the ends of the signed and unsigned ranges: 0, -1,
\* MAX, MAX - 1, -4, the signed MIN and MAX, ...
EdgePatterns(L) ==
    { [i \in 1..L |-> IF i = 1 THEN lo ELSE IF i = L THEN top ELSE mid] :
        lo \in {0, 252, 254, 255}, mid \in {0, 255}, top \in {0, 127, 128, 255} }

PowersOfTen(L) ==
    { power_of_ten_checked(L, e) : e \in 0..MaxExp } \ {None}

\* the values an integer of `bits` bits is drawn from: every value for 8
\* bits, the edges, the powers of ten, some small values and 9786 for the
\* wider types
IntInputs(bits) ==
    LET L == NumLimbs(bits)
    IN  IF L = 1 THEN { <<n>> : n \in 0..LimbMax }
        ELSE EdgePatterns(L) \cup PowersOfTen(L)
               \cup { FromSmall(n, L) : n \in {1, 9, 90, 107} }
               \cup { Resize(<<58, 38>>, L) }

\* the decimal numeral of Self::MAX + 1, computed one limb wider
OverDigits(L) ==
    convert_from_positive(checked_add(Resize(UMax(L), L + 1), FromSmall(1, L + 1)))

\* numerals at the overflow boundary of each width, with leading zeros, and
\* a 1 of huge magnitude: followed by as many zeros as MAX has digits
Numerals ==
    UNION { { Zeros(z) \o convert_from_positive(UMax(NumLimbs(b))) : z \in 0..MaxLeadingZeros }
            \cup { Zeros(z) \o OverDigits(NumLimbs(b)) : z \in 0..MaxLeadingZeros }
            \cup { Zeros(Len(convert_from_positive(UMax(NumLimbs(b))))) \o <<1>> }
            \cup { <<1>> \o Zeros(Len(convert_from_positive(UMax(NumLimbs(b))))) }
          : b \in Widths }

ByteSamples == {0, 3, 9, 10, 18, 20, 255}

ByteSources == SeqsUpTo(ByteSamples, MaxSrcLen) \cup Numerals

\* '0', '3', '9', '-', ' ', 'x'
CharSamples == {48, 51, 57, 45, 32, 120}

\* "034", "90xyz", "-89"
StrLiterals ==
    { <<48, 51, 52>>, <<57, 48, 120, 121, 122>>, <<45, 56, 57>> }

\* the longest sequence a comparison is applied to
MaxCmpLen == 2

\* the sequences a sequence is ordered against: [], [0], [1], [9], [1, 0],
\* [0, 9], [9, 7], its longest proper prefix and an extension of it
CmpOthers(digits) ==
    SeqsUpTo({0, 1, 9}, 1) \cup {<<1, 0>>, <<0, 9>>, <<9, 7>>, Append(digits, 7)}
        \cup (IF digits = <<>> THEN {} ELSE {SubSeq(digits, 1, Len(digits) - 1)})

\* the byte containers a sequence is compared with: [], [0], one holding a
\* 10, its own digits, and its digits with a zero before or with the first
\* digit raised by 10
EqOthers(digits) ==
    { <<>>, <<0>>, <<10>>, digits, <<0>> \o digits }
        \cup (IF digits = <<>> \/ digits[1] + 10 > LimbMax THEN {}
              ELSE {[digits EXCEPT ![1] = digits[1] + 10]})

StrSources == SeqsUpTo(CharSamples, MaxStrLen) \cup StrLiterals

\* "[9,7,8,6]", "[]", "[0,3]", "[18]", "[3,10]", "[255]", "[256]", "[07]",
\* "[9,x]", "[3,]", "9"
JsonSources ==
    { <<91, 57, 44, 55, 44, 56, 44, 54, 93>>, <<91, 93>>, <<91, 48, 44, 51, 93>>,
      <<91, 49, 56, 93>>, <<91, 51, 44, 49, 48, 93>>, <<91, 50, 53, 53, 93>>,
      <<91, 50, 53, 54, 93>>, <<91, 48, 55, 93>>, <<91, 57, 44, 120, 93>>,
      <<91, 51, 44, 93>>, <<57>> }

-----------------------------------------------------------------------------
(* The program: a scope that builds one DigitSequence, uses it and ends *)

VARIABLES
    seq,    \* the digits of the DigitSequence the scope owns
    live,   \* whether the scope owns a DigitSequence (built and not moved)
    op,     \* the last operation
    width,   \* the bit width of its integer type, 0 when it has none
    input,  \* its input: limbs, bytes, chars or the digits it was applied to
    res,    \* what it returned
    deserialized  \* whether the scope's sequence came from deserialization

vars == <<seq, live, op, width, input, res, deserialized>>

Init ==
    /\ seq = <<>>
    /\ live = FALSE
    /\ op = "none"
    /\ width = 0
    /\ input = <<>>
    /\ res = NoResult
    /\ deserialized = FALSE

\* a construction returned r: on Ok the scope owns the new sequence
Built(name, w, in, r) ==
    /\ op' = name
    /\ width' = w
    /\ input' = in
    /\ res' = r
    /\ live' = (r.tag = Ok)
    /\ seq' = r.seq
    /\ deserialized' = FALSE

New ==
    /\ op = "none"
    /\ Built("new", 0, <<>>, OkSeq(new))

Default ==
    /\ op = "none"
    /\ Built("default", 0, <<>>, OkSeq(default))

FromUnsigned ==
    /\ op = "none"
    /\ \E b \in Widths : \E value \in IntInputs(b) :
           Built("from_unsigned", b, value, from_unsigned(value))

TryFromSigned ==
    /\ op = "none"
    /\ \E b \in Widths : \E value \in IntInputs(b) :
           Built("try_from_signed", b, value, try_from_signed(value))

TryFromSlice ==
    /\ op = "none"
    /\ \E digits \in ByteSources :
           Built("try_from_slice", 0, digits, try_from_slice(digits))

TryFromArray ==
    /\ op = "none"
    /\ \E digits \in ByteSources :
           Built("try_from_array", 0, digits, try_from_array(digits))

TryFromArrayRef ==
    /\ op = "none"
    /\ \E digits \in ByteSources :
           Built("try_from_array_ref", 0, digits, try_from_array_ref(digits))

TryFromVec ==
    /\ op = "none"
    /\ \E value \in ByteSources :
           Built("try_from_vec", 0, value, try_from_vec(value))

TryFromVecRef ==
    /\ op = "none"
    /\ \E value \in ByteSources :
           Built("try_from_vec_ref", 0, value, try_from_vec_ref(value))

FromStr ==
    /\ op = "none"
    /\ \E s \in StrSources : Built("from_str", 0, s, from_str(s))

\* an operation on the borrowed sequence returned r: the scope keeps it
Borrowed(name, w, r) ==
    /\ op' = name
    /\ width' = w
    /\ input' = seq
    /\ res' = r
    /\ UNCHANGED <<seq, live, deserialized>>

\* an operation that took the sequence by value returned r: the scope lost it
Moved(name, w, r) ==
    /\ op' = name
    /\ width' = w
    /\ input' = seq
    /\ res' = r
    /\ live' = FALSE
    /\ seq' = <<>>
    /\ UNCHANGED deserialized

\* #[derive(Clone)]
Clone ==
    /\ live
    /\ Borrowed("clone", 0, OkSeq(seq))

TryToUnsignedRef ==
    /\ live
    /\ \E b \in Widths :
           Borrowed("try_to_unsigned_ref", b, try_to_unsigned_ref(b, seq))

TryToUnsigned ==
    /\ live
    /\ \E b \in Widths :
           Moved("try_to_unsigned", b, try_to_unsigned(b, seq))

Display ==
    /\ live
    /\ Borrowed("to_string", 0, to_string(seq))

\* self.cmp(&other), both operands borrowed; `input` is the other operand
Compared(name, other, r) ==
    /\ op' = name
    /\ width' = 0
    /\ input' = other
    /\ res' = r
    /\ UNCHANGED <<seq, live, deserialized>>

Cmp ==
    /\ live
    /\ Len(seq) <= MaxCmpLen
    /\ \E other \in CmpOthers(seq) : Compared("cmp", other, OkOrd(cmp(seq, other)))

\* sequence == other_sequence
Eq ==
    /\ live
    /\ Len(seq) <= MaxCmpLen
    /\ \E other \in {o \in EqOthers(seq) : \A i \in 1..Len(o) : o[i] <= 9} :
           Compared("eq", other, OkBool(eq(seq, other)))

EqSlice ==
    /\ live
    /\ Len(seq) <= MaxCmpLen
    /\ \E other \in EqOthers(seq) :
           Compared("eq_slice", other, OkBool(eq_slice(seq, other)))

EqArray ==
    /\ live
    /\ Len(seq) <= MaxCmpLen
    /\ \E other \in EqOthers(seq) :
           Compared("eq_array", other, OkBool(eq_array(seq, other)))

EqArrayRef ==
    /\ live
    /\ Len(seq) <= MaxCmpLen
    /\ \E other \in EqOthers(seq) :
           Compared("eq_array_ref", other, OkBool(eq_array_ref(seq, other)))

EqVec ==
    /\ live
    /\ Len(seq) <= MaxCmpLen
    /\ \E other \in EqOthers(seq) :
           Compared("eq_vec", other, OkBool(eq_vec(seq, other)))

EqVecRef ==
    /\ live
    /\ Len(seq) <= MaxCmpLen
    /\ \E other \in EqOthers(seq) :
           Compared("eq_vec_ref", other, OkBool(eq_vec_ref(seq, other)))

Iter ==
    /\ live
    /\ Borrowed("iter", 0, OkSeq(iter(seq)))

\* for digit in &sequence
IntoIterRef ==
    /\ live
    /\ Borrowed("into_iter_ref", 0, OkSeq(into_iter_ref(seq)))

\* into_iter(&self): the scope keeps the sequence
IntoIterBorrowing ==
    /\ live
    /\ Borrowed("into_iter", 0, OkSeq(into_iter(seq)))

\* for digit in sequence: into_iter(self) takes the sequence
IntoIter ==
    /\ live
    /\ Moved("into_iter", 0, OkSeq(into_iter(seq)))

\* serde_json::to_string(&sequence)
Serialize ==
    /\ live
    /\ Borrowed("serialize", 0, serialize(seq))

\* serde_json::from_str(json): on Ok the scope owns the sequence read
Deserialize ==
    /\ op = "none"
    /\ \E json \in JsonSources :
           /\ op' = "deserialize"
           /\ width' = 0
           /\ input' = json
           /\ res' = deserialize(json)
           /\ live' = (deserialize(json).tag = Ok)
           /\ seq' = deserialize(json).seq
           /\ deserialized' = (deserialize(json).tag = Ok)

\* the end of the scope: the sequence and the last result are dropped
Drop ==
    /\ op # "none"
    /\ seq' = <<>>
    /\ live' = FALSE
    /\ op' = "none"
    /\ width' = 0
    /\ input' = <<>>
    /\ res' = NoResult
    /\ deserialized' = FALSE

Next ==
    \/ New
    \/ Default
    \/ FromUnsigned
    \/ TryFromSigned
    \/ TryFromSlice
    \/ TryFromArray
    \/ TryFromArrayRef
    \/ TryFromVec
    \/ TryFromVecRef
    \/ FromStr
    \/ Clone
    \/ TryToUnsignedRef
    \/ TryToUnsigned
    \/ Display
    \/ Cmp
    \/ Eq
    \/ EqSlice
    \/ EqArray
    \/ EqArrayRef
    \/ EqVec
    \/ EqVecRef
    \/ Iter
    \/ IntoIterRef
    \/ IntoIter
    \/ Serialize
    \/ Deserialize
    \/ Drop

Spec == Init /\ [][Next]_vars

-----------------------------------------------------------------------------
(* Natural numbers of any size, for stating the properties: little-endian *)
(* limbs without leading zero limbs, 0 being the empty tuple              *)

RECURSIVE Norm(_)
\* the natural number an unsigned limb tuple stands for
Norm(x) ==
    IF Len(x) = 0 THEN <<>>
    ELSE IF x[Len(x)] = 0 THEN Norm(SubSeq(x, 1, Len(x) - 1))
    ELSE x

RECURSIVE NatMulAddFrom(_, _, _, _)
\* the limbs i.. of x * m + carry
NatMulAddFrom(x, m, i, carry) ==
    IF i > Len(x) THEN (IF carry = 0 THEN <<>> ELSE <<carry>>)
    ELSE LET t == x[i] * m + carry
         IN  <<t % Base>> \o NatMulAddFrom(x, m, i + 1, t \div Base)

\* x * m + d, for m and d below 2^8
NatMulAdd(x, m, d) == Norm(NatMulAddFrom(x, m, 1, d))

NatSucc(x) == NatMulAdd(x, 1, 1)

\* a < b
NatLess(a, b) ==
    \/ Len(a) < Len(b)
    \/ /\ Len(a) = Len(b)
       /\ \E i \in 1..Len(a) :
              /\ a[i] < b[i]
              /\ \A j \in (i + 1)..Len(a) : a[j] = b[j]

NatLeq(a, b) == a = b \/ NatLess(a, b)

RECURSIVE PosValueFrom(_, _, _)
\* Horner's rule from digit i on, acc being the value of d[1..i-1]; acc is
\* compared so that it is evaluated before the next digit is taken
PosValueFrom(d, i, acc) ==
    IF i > Len(d) \/ acc = <<0>> THEN acc
    ELSE PosValueFrom(d, i + 1, NatMulAdd(acc, 10, d[i]))

\* the number the decimal numeral d denotes, most significant digit first:
\* the sum of d[i] * 10^(Len(d) - i)
PosValue(d) == PosValueFrom(d, 1, <<>>)

RECURSIVE NatPowersFrom(_, _)
\* <<10^0, ..., 10^k>>, each power from the one before
NatPowersFrom(k, powers) ==
    IF Len(powers) > k THEN powers
    ELSE NatPowersFrom(k, Append(powers, NatMulAdd(powers[Len(powers)], 10, 0)))

\* 10^0 .. 10^(MaxExp + 1)
NatPowersOfTen == NatPowersFrom(MaxExp + 1, <<<<1>>>>)

\* the number of decimal digits of n > 0: 10^(k-1) <= n < 10^k
DecimalLength(n) ==
    CHOOSE k \in 1..(MaxExp + 1) :
        /\ NatLeq(NatPowersOfTen[k], n)
        /\ NatLess(n, NatPowersOfTen[k + 1])

\* 10^e
NatPowerOfTen(e) == NatPowersFrom(e, <<<<1>>>>)[e + 1]

\* 2^W - 1 for a type of L limbs
NatMax(L) == AllOnes(L)

\* |x| of a negative two's complement x: its complement plus one
Magnitude(x) == NatSucc(Norm([i \in 1..Len(x) |-> LimbMax - x[i]]))

IsDigits(d) == \A i \in 1..Len(d) : d[i] \in 0..9

ReconstructOps == {"try_to_unsigned", "try_to_unsigned_ref"}

ByteOps ==
    {"try_from_slice", "try_from_array", "try_from_array_ref",
     "try_from_vec", "try_from_vec_ref"}

Reconstructed == op \in ReconstructOps


DecomposeOps == {"from_unsigned", "try_from_signed"}

\* the limbs of the integer type of the last operation
WidthLimbs == NumLimbs(width)

\* x, an unsigned value, is a value of the unsigned type of L limbs
FitsUnsigned(x, L) == \A i \in 1..Len(x) : i > L => x[i] = 0

\* x, a non-negative value, is a value of the signed type of L limbs
FitsSigned(x, L) == FitsUnsigned(x, L) /\ ~IsNegative(Resize(x, L))

-----------------------------------------------------------------------------
(* Properties *)

\* C1: numeric round-trip. Reconstructing, to the width it was decomposed
\* from, the sequence just obtained from an unsigned n returns Ok(n), never
\* Overflow, up to and including n = MAX.
C1_RoundTrip ==
    [][ ( /\ op = "from_unsigned"
          /\ op' \in ReconstructOps
          /\ width' = width )
        => res' = OkNum(input) ]_vars

\* u128::MAX came back from its 39 digits
C1_Witness ==
    /\ Reconstructed
    /\ width = 128
    /\ Len(input) = 39
    /\ res = OkNum(UMax(NumLimbs(128)))

\* C2: leading zeros never make reconstruction fail: a sequence whose value
\* is at most MAX of the width reconstructs to that value, whatever its
\* number of leading zeros.
C2_LeadingZerosNeverFail ==
    ( /\ Reconstructed
      /\ NatLeq(PosValue(input), NatMax(WidthLimbs)) )
    => /\ res.tag = Ok
       /\ Norm(res.num) = PosValue(input)

\* C3: an Ok(v) of a reconstruction is the positional value of the digits,
\* held in the limbs of the width: never a wrapped or truncated value.
C3_OkIsPositionalValue ==
    ( Reconstructed /\ res.tag = Ok )
    => /\ Len(res.num) = WidthLimbs
       /\ \A i \in 1..Len(res.num) : res.num[i] \in 0..LimbMax
       /\ Norm(res.num) = PosValue(input)

C3_Witness ==
    /\ Reconstructed
    /\ width = 16
    /\ input = <<0, 3, 0>>
    /\ res = OkNum(<<30, 0>>)

\* C4: overflow boundary. A sequence whose value exceeds MAX of the width
\* gives Err(Overflow); the decimal digits of exactly MAX give Ok(MAX).
C4_OverflowBoundary ==
    Reconstructed
    => /\ NatLess(NatMax(WidthLimbs), PosValue(input))
            => res = Err(Overflow, <<>>)
       /\ ( /\ PosValue(input) = NatMax(WidthLimbs)
            /\ input[1] # 0 )
            => res = OkNum(UMax(WidthLimbs))

\* the digits of 2^128 fail for u128
C4_Witness ==
    /\ Reconstructed
    /\ width = 128
    /\ input = << 3, 4, 0, 2, 8, 2, 3, 6, 6, 9, 2, 0, 9, 3, 8, 4, 6, 3, 4, 6,
                  3, 3, 7, 4, 6, 0, 7, 4, 3, 1, 7, 6, 8, 2, 1, 1, 4, 5, 6 >>
    /\ res = Err(Overflow, <<>>)

\* C5: every DigitSequence built by new, default, decomposition, validation
\* or parsing, and every clone of it, has all its elements in 0..9, after
\* any sequence of operations.
C5_DigitInvariant ==
    ~deserialized
    => /\ IsDigits(seq)
       /\ IsDigits(res.seq)

\* a validated sequence, still held after a reconstruction by reference
C5_Witness ==
    /\ live
    /\ op = "try_to_unsigned_ref"
    /\ seq = <<9, 0, 3>>

\* C6: validation of a byte source succeeds iff every element is at most 9;
\* the sequence then is the source, element for element, the empty source
\* gives the empty sequence, and array, vector, slice and their reference
\* forms give the result of the slice.
C6_Validation ==
    op \in ByteOps
    => /\ res.tag = Ok <=> \A i \in 1..Len(input) : input[i] <= 9
       /\ res.tag = Ok => (res.seq = input /\ live /\ seq = input)
       /\ res.tag # Ok => ~live
       /\ input = <<>> => res = OkSeq(<<>>)
       /\ res = try_from_slice(input)

C6_Witness ==
    /\ op = "try_from_vec"
    /\ input = <<0, 3, 9>>
    /\ res = OkSeq(<<0, 3, 9>>)

\* C7: a byte source with an element >= 10 fails with NonDigitNumber(v), v
\* being the leftmost such element, unchanged in the u128 payload.
C7_FirstOffender ==
    ( /\ op \in ByteOps
      /\ \E i \in 1..Len(input) : input[i] >= 10 )
    => LET first == CHOOSE i \in 1..Len(input) :
                        /\ input[i] >= 10
                        /\ \A j \in 1..(i - 1) : input[j] < 10
       IN  /\ res.tag = NonDigitNumber
           /\ Len(res.num) = NumLimbs(128)
           /\ Norm(res.num) = <<input[first]>>

C7_Witness ==
    /\ op = "try_from_array_ref"
    /\ input = <<18, 20>>
    /\ res = Err(NonDigitNumber, FromSmall(18, NumLimbs(128)))

\* C8: the decomposition of an unsigned n is a non-empty canonical numeral:
\* [0] for 0, and for n > 0 a first digit that is not 0 and as many digits
\* as n has decimal digits.
C8_Canonical ==
    op = "from_unsigned"
    => /\ res.tag = Ok
       /\ Len(res.seq) >= 1
       /\ Norm(input) = <<>> => res.seq = <<0>>
       /\ Norm(input) # <<>>
            => /\ res.seq[1] # 0
               /\ Len(res.seq) = DecimalLength(Norm(input))

C8_Witness ==
    /\ op = "from_unsigned"
    /\ width = 64
    /\ input = Zero(NumLimbs(64))
    /\ res = OkSeq(<<0>>)

\* C9: the decomposition of a negative signed integer fails with
\* NegativeNumber(value), the i128 payload having the sign and the magnitude
\* of the source; no sequence is produced.
C9_NegativeRejected ==
    ( op = "try_from_signed" /\ IsNegative(input) )
    => /\ res.tag = NegativeNumber
       /\ Len(res.num) = NumLimbs(128)
       /\ IsNegative(res.num)
       /\ Magnitude(res.num) = Magnitude(input)
       /\ res.seq = <<>>
       /\ ~live

\* i64::MIN
C9_Witness ==
    /\ op = "try_from_signed"
    /\ width = 64
    /\ input = [i \in 1..NumLimbs(64) |-> IF i = NumLimbs(64) THEN 128 ELSE 0]
    /\ res.tag = NegativeNumber

\* C10: the digits depend on the value only: every unsigned type and every
\* signed type that can hold the value just decomposed gives the same Ok
\* sequence.
C10_TypeIndependent ==
    ( op \in DecomposeOps /\ res.tag = Ok )
    => \A b \in Widths :
           /\ FitsUnsigned(input, NumLimbs(b))
                => from_unsigned(Resize(input, NumLimbs(b))) = res
           /\ FitsSigned(input, NumLimbs(b))
                => try_from_signed(Resize(input, NumLimbs(b))) = res

\* 10^30 taken as an i128
C10_Witness ==
    /\ op = "try_from_signed"
    /\ width = 128
    /\ Len(res.seq) = 31
    /\ res.seq[1] = 1
    /\ \A i \in 2..31 : res.seq[i] = 0

\* the chars '0'..'9'
IsDigitChar(c) == c \in 48..57

\* C11: a string of the chars '0'..'9' only parses to a sequence of its
\* length whose i-th digit is the value of the i-th char, leading zeros
\* kept; the empty string gives the empty sequence.
C11_ParseDigits ==
    ( /\ op = "from_str"
      /\ \A i \in 1..Len(input) : IsDigitChar(input[i]) )
    => /\ res.tag = Ok
       /\ Len(res.seq) = Len(input)
       /\ \A i \in 1..Len(input) : res.seq[i] = input[i] - 48
       /\ input = <<>> => res = OkSeq(<<>>)
       /\ live
       /\ seq = res.seq

\* "034" gave [0, 3, 4]
C11_Witness ==
    /\ op = "from_str"
    /\ input = <<48, 51, 52>>
    /\ res = OkSeq(<<0, 3, 4>>)

\* C12: a string with a char outside '0'..'9' fails with NonDigitChar(c), c
\* being the leftmost such char, whatever digits precede it; '-' and
\* whitespace are such chars.
C12_FirstBadChar ==
    ( /\ op = "from_str"
      /\ \E i \in 1..Len(input) : ~IsDigitChar(input[i]) )
    => LET first == CHOOSE i \in 1..Len(input) :
                        /\ ~IsDigitChar(input[i])
                        /\ \A j \in 1..(i - 1) : IsDigitChar(input[j])
       IN  /\ res = Err(NonDigitChar, <<input[first]>>)
           /\ ~live
           /\ seq = <<>>

\* "90xyz" gave NonDigitChar('x')
C12_Witness ==
    /\ op = "from_str"
    /\ input = <<57, 48, 120, 121, 122>>
    /\ res = Err(NonDigitChar, <<120>>)

C14_TextRoundTrip ==
    /\ op = "to_string" /\ IsDigits(seq) => from_str(res.num) = OkSeq(seq)
    /\ ( /\ op = "from_str"
         /\ \A i \in 1..Len(input) : IsDigitChar(input[i]) )
       => /\ res.tag = Ok
          /\ to_string(res.seq) = OkStr(input)

\* the rendering of [0, 0, 9] parses back to it
C14_Witness ==
    /\ op = "to_string"
    /\ seq = <<0, 0, 9>>
    /\ from_str(res.num) = OkSeq(<<0, 0, 9>>)

\* a is a prefix of b, b itself included
IsPrefix(a, b) == Len(a) <= Len(b) /\ \A i \in 1..Len(a) : a[i] = b[i]

\* C15: ordering, prefix rule. A sequence that is a proper prefix of another
\* is smaller than it: the empty sequence is below every other sequence and
\* [9] < [9, 7].
C15_PrefixIsSmaller ==
    op = "cmp"
    => /\ (IsPrefix(seq, input) /\ seq # input) => res = OkOrd(Less)
       /\ (IsPrefix(input, seq) /\ seq # input) => res = OkOrd(Greater)

\* [9] compared with [9, 7]
C15_Witness ==
    /\ op = "cmp"
    /\ seq = <<9>>
    /\ input = <<9, 7>>
    /\ res = OkOrd(Less)

\* C16: ordering, digit rule. When neither sequence is a prefix of the
\* other, the digits at the first position where they differ decide,
\* whatever the lengths and the numeric values: [1, 0] < [9], [0, 9] < [1].
C16_FirstDifferenceDecides ==
    ( /\ op = "cmp"
      /\ ~IsPrefix(seq, input)
      /\ ~IsPrefix(input, seq) )
    => LET k == CHOOSE i \in 1..Len(seq) :
                    /\ i <= Len(input)
                    /\ seq[i] # input[i]
                    /\ \A j \in 1..(i - 1) : seq[j] = input[j]
       IN  res = OkOrd(IF seq[k] < input[k] THEN Less ELSE Greater)

\* [1, 0] compared with [9]: smaller, though 10 > 9
C16_Witness ==
    /\ op = "cmp"
    /\ seq = <<1, 0>>
    /\ input = <<9>>
    /\ res = OkOrd(Less)

EqOps == {"eq", "eq_slice", "eq_array", "eq_array_ref", "eq_vec", "eq_vec_ref"}

C18_ValueAsReference ==
    /\ op = "try_to_unsigned"
         => res = try_to_unsigned_ref(width, input)
    /\ op = "try_to_unsigned_ref"
         => /\ res = try_to_unsigned(width, input)
            /\ live
            /\ seq = input

\* [2, 5, 6] converted by value to u8: the Overflow of the reference form
C18_Witness ==
    /\ op = "try_to_unsigned"
    /\ width = 8
    /\ input = <<2, 5, 6>>
    /\ res = Err(Overflow, <<>>)

IterRefOps == {"iter", "into_iter_ref"}

\* C19: read-only iteration is repeatable. After any iteration by iter() or
\* over a reference, the first or a later one, the items are all the digits
\* in stored order, once each; the sequence is as it was, still owned, and
\* both iterations can start again.
C19_IterationRepeatable ==
    op \in IterRefOps
    => /\ res = OkSeq(input)
       /\ seq = input
       /\ live
       /\ ENABLED Iter
       /\ ENABLED IntoIterRef

\* [9, 0, 3] iterated over a reference
C19_Witness ==
    /\ op = "into_iter_ref"
    /\ seq = <<9, 0, 3>>
    /\ res = OkSeq(<<9, 0, 3>>)

\* the operations on a sequence the scope owns
Use ==
    \/ Clone
    \/ Serialize
    \/ TryToUnsignedRef
    \/ TryToUnsigned
    \/ Display
    \/ Cmp
    \/ Eq
    \/ EqSlice
    \/ EqArray
    \/ EqArrayRef
    \/ EqVec
    \/ EqVecRef
    \/ Iter
    \/ IntoIterRef
    \/ IntoIter

\* C20: consuming iteration is one-shot. Its items are the digits in stored
\* order, once each, and the consumed sequence is gone: no iteration,
\* conversion or comparison of it can follow.
C20_ConsumedOnce ==
    op = "into_iter"
    => /\ res = OkSeq(input)
       /\ ~live
       /\ ~ENABLED Use

\* [9, 0, 3] consumed by a for loop
C20_Witness ==
    /\ op = "into_iter"
    /\ input = <<9, 0, 3>>
    /\ res = OkSeq(<<9, 0, 3>>)
    /\ ~live

\* C21: serialization round-trip. A sequence serializes to the array of its
\* digits in order, '[' d1 ',' d2 ... ']' (9786 gives [9,7,8,6]), and
\* deserializing that array gives Ok of the same sequence, its leading
\* zeros and its emptiness kept.
C21_SerdeRoundTrip ==
    op = "serialize"
    => /\ res.tag = Ok
       /\ deserialize(res.num) = OkSeq(seq)
       /\ eq(deserialize(res.num).seq, seq)
       /\ IsDigits(seq) /\ seq # <<>>
          => /\ Len(res.num) = 2 * Len(seq) + 1
             /\ res.num[1] = 91
             /\ \A i \in 1..Len(seq) :
                    /\ res.num[2 * i] = 48 + seq[i]
                    /\ res.num[2 * i + 1] = IF i = Len(seq) THEN 93 ELSE 44
       /\ seq = <<>> => res = OkStr(<<91, 93>>)
       /\ seq = <<9, 7, 8, 6>>
          => res = OkStr(<<91, 57, 44, 55, 44, 56, 44, 54, 93>>)
       /\ live
       /\ input = seq

\* the digits of 9786u16 serialized as "[9,7,8,6]", which reads back
C21_Witness ==
    /\ op = "serialize"
    /\ ~deserialized
    /\ seq = <<9, 7, 8, 6>>
    /\ res = OkStr(<<91, 57, 44, 55, 44, 56, 44, 54, 93>>)
    /\ deserialize(res.num) = OkSeq(<<9, 7, 8, 6>>)

\* C22: an operation fails only with its own error kind: parsing with
\* NonDigitChar, byte validation with NonDigitNumber, signed decomposition
\* with NegativeNumber, reconstruction with Overflow; unsigned
\* decomposition, new, default, rendering and iteration never fail; and a
\* call returns one outcome: a failed construction leaves no sequence, not
\* even a partial one, and a successful one leaves exactly what it returned.
C22_OwnErrorKind ==
    /\ op = "from_str" => res.tag \in {Ok, NonDigitChar}
    /\ op \in ByteOps => res.tag \in {Ok, NonDigitNumber}
    /\ op = "try_from_signed" => res.tag \in {Ok, NegativeNumber}
    /\ op \in ReconstructOps => res.tag \in {Ok, Overflow}
    /\ op \in {"from_unsigned", "new", "default", "to_string"} \cup IterRefOps
              \cup {"into_iter"}
       => res.tag = Ok
    /\ op # "none" => res # NoResult
    /\ res.tag \notin {Ok, NoResult.tag} => res.seq = <<>>
    /\ op \in {"from_str", "try_from_signed", "from_unsigned", "new", "default"}
              \cup ByteOps
       => IF res.tag = Ok
          THEN live /\ seq = res.seq /\ res.num = <<>>
          ELSE ~live /\ seq = <<>>
    /\ op \in ReconstructOps /\ res.tag = Overflow => res.num = <<>>

\* the reconstruction of [2, 5, 6] to u8 fails, with Overflow
C22_Witness ==
    /\ op \in ReconstructOps
    /\ width = 8
    /\ input = <<2, 5, 6>>
    /\ res = Err(Overflow, <<>>)

\* C23: deserialization keeps the digit invariant: a deserialized sequence
\* has every element in 0..9, and an array holding an element >= 10, such
\* as [18], is rejected.
C23_DeserializeKeepsDigits ==
    /\ op = "deserialize" /\ res.tag = Ok => IsDigits(res.seq) /\ IsDigits(seq)
    /\ op = "deserialize" /\ input = <<91, 49, 56, 93>> => res.tag # Ok
    /\ deserialized => IsDigits(seq)

\* C24: reconstruction of k digits to a width of W bits is Ok exactly when
\* (k = 0 or 10^(k-1) <= 2^W - 1) and the positional value <= 2^W - 1, and
\* Err(Overflow) otherwise: the power of ten of every position is checked,
\* also for a digit 0, so more digits than MAX has always fail.
C24_ExactSuccessCondition ==
    Reconstructed
    => LET k == Len(input)
           max == NatMax(WidthLimbs)
           fits == /\ k = 0 \/ NatLeq(NatPowerOfTen(k - 1), max)
                   /\ NatLeq(PosValue(input), max)
       IN  /\ res.tag = Ok <=> fits
           /\ ~fits => res = Err(Overflow, <<>>)
           /\ fits => Norm(res.num) = PosValue(input)
           /\ k > DecimalLength(max) => res = Err(Overflow, <<>>)

\* a 1 followed by 39 zeros, one digit more than MAX has, fails for u128
C24_Witness ==
    /\ Reconstructed
    /\ width = 128
    /\ input = <<1>> \o Zeros(DecimalLength(NatMax(NumLimbs(128))))
    /\ Len(input) = 40
    /\ res = Err(Overflow, <<>>)

\* C25: the empty sequence, as built by new(), default() or parsing "", is
\* not equal to [0], yet it reconstructs to Ok(0) for every width, as [0]
\* does: reconstruction is not injective, and decomposing that 0 gives [0],
\* not the empty sequence.
C25_EmptyIsZero ==
    /\ ( op \in {"new", "default"} \/ (op = "from_str" /\ input = <<>>) )
       => /\ res = OkSeq(<<>>)
          /\ live /\ seq = <<>>
    /\ ( op \in EqOps /\ {seq, input} = {<<>>, <<0>>} ) => res = OkBool(FALSE)
    /\ ( Reconstructed /\ input = <<>> )
       => /\ res = OkNum(Zero(WidthLimbs))
          /\ res = try_to_unsigned_ref(width, <<0>>)
          /\ ~eq(input, <<0>>)
          /\ from_unsigned(res.num) = OkSeq(<<0>>)
          /\ from_unsigned(res.num) # OkSeq(input)

\* the empty sequence reconstructed, by reference, to the u64 0
C25_Witness ==
    /\ op = "try_to_unsigned_ref"
    /\ live /\ seq = <<>>
    /\ input = <<>>
    /\ width = 64
    /\ res = OkNum(Zero(NumLimbs(64)))

\* d without its leading zeros, [0] when nothing is left
Canonical(d) ==
    LET others == {i \in 1..Len(d) : d[i] # 0}
    IN  IF others = {} THEN <<0>>
        ELSE SubSeq(d, CHOOSE i \in others : \A j \in others : i <= j, Len(d))

MostPasses(bits) ==
    CASE bits = 8 -> 3 [] bits = 16 -> 5 [] bits = 32 -> 10
      [] bits = 64 -> 20 [] bits = 128 -> 39

\* C27: every conversion ends within a known number of passes. The loop of a
\* decomposition makes at least one pass and as many as the value has
\* decimal digits (at most 3, 5, 10, 20, 39 for 8 to 128 bits), each pass
\* leaving a smaller value until it leaves 0; validation, parsing and
\* reconstruction make at most one pass per element and none after the
\* first failing one.
C27_PassesBounded ==
    /\ ( op \in DecomposeOps /\ res.tag = Ok )
       => LET passes == ConvertPasses(input, <<>>)
              n == Len(passes)
          IN  /\ n >= 1
              /\ n = Len(res.seq)
              /\ n = IF Norm(input) = <<>> THEN 1 ELSE DecimalLength(Norm(input))
              /\ n <= MostPasses(width)
              /\ passes[n] = Zero(WidthLimbs)
              /\ \A i \in 1..n :
                     LET before == IF i = 1 THEN input ELSE passes[i - 1]
                     IN  /\ Norm(before) # <<>>
                            => NatLess(Norm(passes[i]), Norm(before))
                         /\ i > 1 => Norm(before) # <<>>
    /\ op \in ByteOps
       => LET n == SlicePasses(input, 1)
          IN  /\ n <= Len(input)
              /\ \A j \in 1..(n - 1) : input[j] < 10
              /\ IF res.tag = Ok THEN n = Len(input)
                 ELSE n >= 1 /\ input[n] >= 10
    /\ op = "from_str"
       => LET n == FromStrPasses(input, 1)
          IN  /\ n <= Len(input)
              /\ \A j \in 1..(n - 1) : IsDigitChar(input[j])
              /\ IF res.tag = Ok THEN n = Len(input)
                 ELSE n >= 1 /\ ~IsDigitChar(input[n])
    /\ Reconstructed
       => LET n == ToUnsignedPasses(WidthLimbs, input, 0, Zero(WidthLimbs))
              last(m) == SubSeq(input, Len(input) - m + 1, Len(input))
          IN  /\ n <= Len(input)
              /\ IF res.tag = Ok THEN n = Len(input)
                 ELSE /\ n >= 1
                      /\ try_to_unsigned_ref(width, last(n - 1)).tag = Ok
                      /\ try_to_unsigned_ref(width, last(n)).tag = Overflow

\* u128::MAX decomposed in 39 passes
C27_Witness ==
    /\ op = "from_unsigned"
    /\ width = 128
    /\ input = UMax(NumLimbs(128))
    /\ Len(ConvertPasses(input, <<>>)) = 39
    /\ Len(res.seq) = 39

=============================================================================
